---------------------------- MODULE Spec2Model ----------------------------
(***************************************************************************)
(* A model of the caches crate: FIFOCache (src/src/fifo.rs), LruCache      *)
(* (src/src/lru_1.rs) and Lru2qCache (src/src/lru_2q.rs, which lib.rs      *)
(* leaves out of the build).                                               *)
(*                                                                         *)
(* All three sit on linked_hash_map_rs::LinkedHashMap, a crate whose code  *)
(* is not among the sources: its operations, named lhm_..., are modelled   *)
(* from section 4.1 of the specification (OrderedMap).                     *)
(*                                                                         *)
(* A map is a sequence of <<key, value>> pairs, front first, with pairwise *)
(* distinct keys.  A cache method is an operator from the receiver and the *)
(* arguments to a record [self, res, panic]: the receiver after the call,  *)
(* the value returned, and whether the call panicked.  A panic ends the    *)
(* run.  Option<T> is None or Some(x); a returned reference is the value   *)
(* it refers to.                                                           *)
(*                                                                         *)
(* debug_assert! is checked in builds with debug assertions and compiled   *)
(* out of the others: the build is chosen at construction (debug) and      *)
(* fixed.                                                                  *)
(*                                                                         *)
(* Spec is the crate as lib.rs builds it, FIFOCache and LruCache.  SpecQ2  *)
(* is the source of lru_2q.rs, read as written.  Line 79 of that file      *)
(* gives put_and_return a body of the entry's type where Option of it is   *)
(* declared, so the source does not fix what the call returns: the model   *)
(* leaves it open between None and Some of the entry (parameter ret).      *)
(***************************************************************************)
EXTENDS Integers, Sequences, FiniteSets, TLC

\* ------------------------------------------------------------------ bounds
NumKeys == 3
MaxCapacity == 2
\* hits, misses (u64) and popped_count (usize) only grow: the guards of the
\* actions stop each at its bound, far below the width of the counter.
MaxHits == 2
MaxMisses == 1
MaxPopped == 2

Keys == 1..NumKeys
\* The caches never inspect a value (V is an unconstrained type parameter):
\* two distinguishable values tell a kept value from an overwritten one.
Values == {"a", "b"}
Capacities == 0..MaxCapacity
\* the capacities of an Lru2qCache: each of its two queues gets the whole of it
Q2Capacities == 0..MaxCapacity

\* the keys put to an Lru2qCache: it is two caches, and its states are pairs
\* of theirs
Q2Keys == 1..(NumKeys - 1)

None == <<>>
Some(x) == <<x>>
IsSome(o) == o # None
Unwrap(o) == o[1]

\* ------------------------------------------------- LinkedHashMap (OrderedMap)
lhm_keys(m) == [i \in 1..Len(m) |-> m[i][1]]

lhm_len(m) == Len(m)

lhm_is_empty(m) == Len(m) = 0

lhm_contains(m, k) == \E i \in 1..Len(m) : m[i][1] = k

lhm_index(m, k) == CHOOSE i \in 1..Len(m) : m[i][1] = k

lhm_without(m, k) == SelectSeq(m, LAMBDA e : e[1] # k)

\* get(key) -> optional value-ref, no reordering
lhm_get(m, k) == IF lhm_contains(m, k) THEN Some(m[lhm_index(m, k)][2]) ELSE None

lhm_key_set(m) == {m[i][1] : i \in 1..Len(m)}

\* the key of the back entry (0 when the map is empty)
lhm_back_key(m) == IF Len(m) = 0 THEN 0 ELSE m[Len(m)][1]

\* the key of the front entry (0 when the map is empty)
lhm_front_key(m) == IF Len(m) = 0 THEN 0 ELSE m[1][1]

\* the write through the reference get_mut returns
lhm_set(m, k, w) == [i \in 1..Len(m) |-> IF m[i][1] = k THEN <<k, w>> ELSE m[i]]

\* remove(key) -> optional owned pair
lhm_remove(m, k) ==
    IF lhm_contains(m, k)
    THEN [map |-> lhm_without(m, k), res |-> Some(m[lhm_index(m, k)])]
    ELSE [map |-> m, res |-> None]

\* move_to_back(key) -> optional entry-ref; absent key: none, no insertion
lhm_move_to_back(m, k) ==
    IF lhm_contains(m, k)
    THEN [map |-> Append(lhm_without(m, k), m[lhm_index(m, k)]),
          res |-> Some(m[lhm_index(m, k)])]
    ELSE [map |-> m, res |-> None]

\* push_back(key, value): an existing entry of the key is detached from its
\* old position, and a fresh entry is placed at the back with the new value
lhm_push_back(m, k, v) == Append(lhm_without(m, k), <<k, v>>)

\* push_back_and_return(key, value): the same effect, returning the entry
lhm_push_back_and_return(m, k, v) ==
    [map |-> lhm_push_back(m, k, v), res |-> <<k, v>>]

\* pop_front() -> optional owned pair; none if empty
lhm_pop_front(m) ==
    IF Len(m) = 0
    THEN [map |-> m, res |-> None]
    ELSE [map |-> Tail(m), res |-> Some(Head(m))]

lhm_front(m) == IF Len(m) = 0 THEN None ELSE Some(m[1])

lhm_back(m) == IF Len(m) = 0 THEN None ELSE Some(m[Len(m)])

\* position(i): zero-indexed rank from the front
lhm_position(m, i) == IF i < Len(m) THEN Some(m[i + 1]) ELSE None

lhm_clear(m) == <<>>

\* Option<(K, V)>::map(|(_, v)| v)
map_value(o) == IF IsSome(o) THEN Some(Unwrap(o)[2]) ELSE None

VARIABLES
    kind,       \* the cache under test: "fifo", "lru" or "2q"
    debug,      \* cfg!(debug_assertions): whether debug_assert! is compiled in
    fifo,       \* the FIFOCache
    lru,        \* the LruCache
    q2,         \* the Lru2qCache
    lastOp,     \* the name of the last call
    retSome,    \* the last call returned Some(..), an entry, or true
    keyIn,      \* the queues that held the key of the last call when it began
    panicked,   \* the last call panicked
    putLog,     \* history: the keys put into fifo, in order of admission
    fifoPure,   \* history: fifo saw only puts of distinct keys, get, get_mut, contains
    accessLog,  \* history: the keys of lru, in order of their last access
    hitCalls,   \* history: the get / get_mut calls on fifo for a key it held
    missCalls,  \* history: the get / get_mut calls on fifo for a key it did not hold
    evictions,  \* history: the entries a put on lru removed to make room
    newCapacity \* history: the capacity the cache under test was constructed with

vars == <<kind, debug, fifo, lru, q2, lastOp, retSome, keyIn, panicked,
          putLog, fifoPure, accessLog, hitCalls, missCalls, evictions,
          newCapacity>>

\* --------------------------------------------------------------- FIFOCache
FIFOCache_new(capacity) ==
    [capacity |-> capacity, map |-> <<>>, hits |-> 0, misses |-> 0]

fifo_len(self) == lhm_len(self.map)

fifo_capacity(self) == self.capacity

fifo_is_empty(self) == lhm_is_empty(self.map)

fifo_contains(self, k) == lhm_contains(self.map, k)

fifo_front(self) == map_value(lhm_front(self.map))

fifo_back(self) == map_value(lhm_back(self.map))

fifo_pos(self, i) == map_value(lhm_position(self.map, i))

\* take that removes the front entry, whatever the key
fifo_take_front(self, k) ==
    LET r == lhm_pop_front(self.map)
    IN  [self |-> [self EXCEPT !.map = r.map], res |-> r.res, panic |-> FALSE]

fifo_take(self, k) ==
    LET r == lhm_remove(self.map, k)
    IN  [self |-> [self EXCEPT !.map = r.map], res |-> r.res, panic |-> FALSE]

\* get that also moves the entry to the back, as LruCache::get does
fifo_get_renewing(self, k) ==
    IF IsSome(lhm_get(self.map, k))
    THEN [self |-> [self EXCEPT !.hits = @ + 1, !.map = lhm_move_to_back(@, k).map],
          res |-> lhm_get(self.map, k), panic |-> FALSE]
    ELSE [self |-> [self EXCEPT !.misses = @ + 1], res |-> None, panic |-> FALSE]

fifo_get(self, k) ==
    IF IsSome(lhm_get(self.map, k))
    THEN [self |-> [self EXCEPT !.hits = @ + 1],
          res |-> lhm_get(self.map, k), panic |-> FALSE]
    ELSE [self |-> [self EXCEPT !.misses = @ + 1], res |-> None, panic |-> FALSE]

\* get_mut that leaves the counters alone
fifo_get_mut_uncounted(self, k, w) ==
    IF lhm_contains(self.map, k)
    THEN [self |-> [self EXCEPT !.map = lhm_set(@, k, w)],
          res |-> Some(w), panic |-> FALSE]
    ELSE [self |-> self, res |-> None, panic |-> FALSE]

\* get_mut, and the caller's write of w through the returned reference
fifo_get_mut(self, k, w) ==
    IF lhm_contains(self.map, k)
    THEN [self |-> [self EXCEPT !.hits = @ + 1, !.map = lhm_set(@, k, w)],
          res |-> Some(w), panic |-> FALSE]
    ELSE [self |-> [self EXCEPT !.misses = @ + 1], res |-> None, panic |-> FALSE]

\* renew that reports the entry but leaves it where it is
fifo_renew_in_place(self, k) ==
    [self |-> self, res |-> lhm_move_to_back(self.map, k).res, panic |-> FALSE]

fifo_renew(self, k) ==
    LET r == lhm_move_to_back(self.map, k)
    IN  [self |-> [self EXCEPT !.map = r.map], res |-> r.res, panic |-> FALSE]

\* check_size without the panic on an empty map: pop_front's none is passed on
fifo_check_size_no_panic(self) ==
    IF debug /\ ~(lhm_len(self.map) <= self.capacity)
    THEN [self |-> self, res |-> None, panic |-> TRUE]
    ELSE IF lhm_len(self.map) >= self.capacity
    THEN LET r == lhm_pop_front(self.map)
         IN  [self |-> [self EXCEPT !.map = r.map], res |-> r.res, panic |-> FALSE]
    ELSE [self |-> self, res |-> None, panic |-> FALSE]

\* check_size with the comparison `>` in place of `>=`
fifo_check_size_off_by_one(self) ==
    IF debug /\ ~(lhm_len(self.map) <= self.capacity)
    THEN [self |-> self, res |-> None, panic |-> TRUE]
    ELSE IF lhm_len(self.map) > self.capacity
    THEN LET r == lhm_pop_front(self.map)
         IN  IF IsSome(r.res)
             THEN [self |-> [self EXCEPT !.map = r.map], res |-> r.res, panic |-> FALSE]
             ELSE [self |-> self, res |-> None, panic |-> TRUE]
    ELSE [self |-> self, res |-> None, panic |-> FALSE]

fifo_check_size(self) ==
    IF debug /\ ~(fifo_len(self) <= fifo_capacity(self))
    THEN [self |-> self, res |-> None, panic |-> TRUE]
    ELSE IF fifo_len(self) >= fifo_capacity(self)
    THEN LET r == lhm_pop_front(self.map)
         IN  IF IsSome(r.res)
             THEN [self |-> [self EXCEPT !.map = r.map], res |-> r.res, panic |-> FALSE]
             ELSE [self |-> self, res |-> None, panic |-> TRUE]
    ELSE [self |-> self, res |-> None, panic |-> FALSE]

fifo_put(self, k, v) ==
    LET c == fifo_check_size(self)
    IN  IF c.panic
        THEN c
        ELSE [self |-> [c.self EXCEPT !.map = lhm_push_back(@, k, v)],
              res |-> c.res, panic |-> FALSE]

fifo_put_and_return(self, k, v) ==
    LET c == fifo_check_size(self)
    IN  IF c.panic
        THEN c
        ELSE LET r == lhm_push_back_and_return(c.self.map, k, v)
             IN  [self |-> [c.self EXCEPT !.map = r.map], res |-> r.res, panic |-> FALSE]

\* hits_ratio: the quotient hits / (hits + misses), kept as its two terms
fifo_hits_ratio(self) ==
    [num |-> self.hits, den |-> self.hits + self.misses]

\* clear that drops the front entry only
fifo_clear_front_only(self) ==
    [self |-> [self EXCEPT !.map = lhm_pop_front(@).map], res |-> None, panic |-> FALSE]

fifo_clear(self) ==
    [self |-> [self EXCEPT !.map = lhm_clear(@)], res |-> None, panic |-> FALSE]

\* ---------------------------------------------------------------- LruCache
PutStrategy == {"Replace", "Add", "Move"}

PutStrategy_default == "Add"

LruCache_with_put_strategy(capacity, strategy) ==
    [capacity |-> capacity, map |-> <<>>, put_strategy |-> strategy, popped_count |-> 0]

LruCache_new(capacity) == LruCache_with_put_strategy(capacity, PutStrategy_default)

lru_len(self) == lhm_len(self.map)

lru_capacity(self) == self.capacity

lru_popped_count(self) == self.popped_count

lru_is_empty(self) == lhm_is_empty(self.map)

lru_contains(self, k) == lhm_contains(self.map, k)

lru_front(self) == map_value(lhm_front(self.map))

lru_back(self) == map_value(lhm_back(self.map))

lru_pos(self, i) == map_value(lhm_position(self.map, i))

lru_put_strategy(self, strategy) ==
    [self |-> [self EXCEPT !.put_strategy = strategy], res |-> None, panic |-> FALSE]

\* get that reads the value and leaves the entry where it is, as FIFOCache::get does
lru_get_no_move(self, k) ==
    [self |-> self, res |-> lhm_get(self.map, k), panic |-> FALSE]

lru_get(self, k) ==
    LET r == lhm_move_to_back(self.map, k)
    IN  [self |-> [self EXCEPT !.map = r.map], res |-> map_value(r.res), panic |-> FALSE]

\* get_mut, and the caller's write of w through the returned reference
lru_get_mut(self, k, w) ==
    LET r == lhm_move_to_back(self.map, k)
    IN  IF IsSome(r.res)
        THEN [self |-> [self EXCEPT !.map = lhm_set(r.map, k, w)],
              res |-> Some(w), panic |-> FALSE]
        ELSE [self |-> [self EXCEPT !.map = r.map], res |-> None, panic |-> FALSE]

lru_take(self, k) ==
    LET r == lhm_remove(self.map, k)
    IN  [self |-> [self EXCEPT !.map = r.map], res |-> r.res, panic |-> FALSE]

\* the branch for a present key with Move overwriting the value, as Add does
lru_put_present_move_overwrites(self, k, v) ==
    CASE self.put_strategy = "Add" ->
            [self EXCEPT !.map = lhm_push_back(lhm_remove(@, k).map, k, v)]
      [] self.put_strategy = "Move" ->
            [self EXCEPT !.map = lhm_push_back(@, k, v)]
      [] self.put_strategy = "Replace" ->
            [self EXCEPT !.map = lhm_push_back(@, k, v)]

\* the branch of put and put_and_return for a key the map contains
lru_put_present(self, k, v) ==
    CASE self.put_strategy = "Add" ->
            [self EXCEPT !.map = lhm_push_back(lhm_remove(@, k).map, k, v)]
      [] self.put_strategy = "Move" ->
            [self EXCEPT !.map = lhm_move_to_back(@, k).map]
      [] self.put_strategy = "Replace" ->
            [self EXCEPT !.map = lhm_push_back(@, k, v)]

\* the branch of put and put_and_return for a key the map does not contain
lru_put_absent(self, k, v) ==
    IF lru_len(self) >= lru_capacity(self)
    THEN [self |-> [self EXCEPT !.map = lhm_push_back(lhm_pop_front(@).map, k, v),
                                !.popped_count = @ + 1],
          res |-> lhm_pop_front(self.map).res]
    ELSE [self |-> [self EXCEPT !.map = lhm_push_back(@, k, v)], res |-> None]

lru_put(self, k, v) ==
    LET after == IF lhm_contains(self.map, k)
                 THEN [self |-> lru_put_present(self, k, v), res |-> None]
                 ELSE lru_put_absent(self, k, v)
        fails == debug /\ ~(lru_len(after.self) <= lru_capacity(after.self))
    IN  [self |-> after.self, res |-> IF fails THEN None ELSE after.res,
         panic |-> fails]

lru_put_and_return(self, k, v) ==
    IF debug /\ ~(lru_len(self) <= lru_capacity(self))
    THEN [self |-> self, res |-> None, panic |-> TRUE]
    ELSE IF lhm_contains(self.map, k)
    THEN [self |-> lru_put_present(self, k, v),
          res |-> CASE self.put_strategy = "Add" -> Some(<<k, v>>)
                    [] self.put_strategy = "Move" -> lhm_move_to_back(self.map, k).res
                    [] self.put_strategy = "Replace" -> Some(<<k, v>>),
          panic |-> FALSE]
    ELSE [self |-> lru_put_absent(self, k, v).self, res |-> None, panic |-> FALSE]

lru_clear(self) ==
    [self |-> [self EXCEPT !.map = lhm_clear(@)], res |-> None, panic |-> FALSE]

\* -------------------------------------------------------------- Lru2qCache
Lru2qCache_new(capacity) ==
    [capacity |-> capacity, lru |-> LruCache_new(capacity), fifo |-> FIFOCache_new(capacity)]

q2_len(self) == fifo_len(self.fifo) + lru_len(self.lru)

\* capacity(): the debug assertion on the two queues' capacities, then the field
q2_capacity(self) ==
    [res |-> self.capacity,
     panic |-> debug /\ ~(/\ self.capacity = fifo_capacity(self.fifo)
                          /\ self.capacity = lru_capacity(self.lru))]

q2_is_empty(self) == fifo_is_empty(self.fifo) /\ lru_is_empty(self.lru)

q2_front(self) == lru_front(self.lru)

q2_back(self) == fifo_back(self.fifo)

\* get that falls back on the protected queue when the admission queue
\* does not hold the key
q2_get_both_queues(self, k) ==
    LET t == fifo_take(self.fifo, k)
    IN  IF IsSome(t.res)
        THEN LET p == lru_put_and_return(self.lru, Unwrap(t.res)[1], Unwrap(t.res)[2])
             IN  [self |-> [self EXCEPT !.fifo = t.self, !.lru = p.self],
                  res |-> map_value(p.res), panic |-> p.panic]
        ELSE LET g == lru_get(self.lru, k)
             IN  [self |-> [self EXCEPT !.lru = g.self], res |-> g.res, panic |-> FALSE]

q2_get(self, k) ==
    LET t == fifo_take(self.fifo, k)
    IN  IF IsSome(t.res)
        THEN LET p == lru_put_and_return(self.lru, Unwrap(t.res)[1], Unwrap(t.res)[2])
             IN  [self |-> [self EXCEPT !.fifo = t.self, !.lru = p.self],
                  res |-> map_value(p.res), panic |-> p.panic]
        ELSE [self |-> [self EXCEPT !.fifo = t.self], res |-> None, panic |-> FALSE]

q2_put(self, k, v) ==
    LET p == fifo_put(self.fifo, k, v)
    IN  [self |-> [self EXCEPT !.fifo = p.self], res |-> p.res, panic |-> p.panic]

\* the body is fifo.put_and_return, which yields the entry itself, while
\* Option of the entry is declared: the returned value is not fixed by the
\* source, and is Some of the entry if ret and None if not
q2_put_and_return(self, k, v, ret) ==
    LET p == fifo_put_and_return(self.fifo, k, v)
    IN  [self |-> [self EXCEPT !.fifo = p.self],
         res |-> IF ~p.panic /\ ret THEN Some(p.res) ELSE None, panic |-> p.panic]

\* get_mut, take and pos are todo!(): every call panics
q2_get_mut(self, k) == [self |-> self, res |-> None, panic |-> TRUE]

q2_take(self, k) == [self |-> self, res |-> None, panic |-> TRUE]

q2_pos(self, i) == [self |-> self, res |-> None, panic |-> TRUE]

\* get_or_init that looks for the key in the admission queue only
q2_get_or_init_fifo_only(self, k, v, ret) ==
    IF fifo_contains(self.fifo, k)
    THEN LET g == q2_get(self, k)
         IN  [self |-> g.self, res |-> g.res, panic |-> g.panic, inits |-> 0]
    ELSE LET p == q2_put_and_return(self, k, v, ret)
         IN  [self |-> p.self, res |-> map_value(p.res), panic |-> p.panic,
              inits |-> 1]

\* init() is evaluated only on the miss branch, and yields v; inits is the
\* number of times the call evaluated it
q2_get_or_init(self, k, v, ret) ==
    IF fifo_contains(self.fifo, k) \/ lru_contains(self.lru, k)
    THEN LET g == q2_get(self, k)
         IN  [self |-> g.self, res |-> g.res, panic |-> g.panic, inits |-> 0]
    ELSE LET p == q2_put_and_return(self, k, v, ret)
         IN  [self |-> p.self, res |-> map_value(p.res), panic |-> p.panic,
              inits |-> 1]

q2_clear(self) ==
    [self |-> [self EXCEPT !.fifo = fifo_clear(@).self, !.lru = lru_clear(@).self],
     res |-> None, panic |-> FALSE]

\* ------------------------------------------------------------ history logs
\* the key k becomes the most recently accessed of the log
Touch(log, k) == Append(SelectSeq(log, LAMBDA x : x # k), k)

\* the log without the keys that map m no longer holds
Restrict(log, m) == SelectSeq(log, LAMBDA x : lhm_contains(m, x))

\* ------------------------------------------------------------------- Init
\* construction of the cache under test, of one of the three types
New ==
    \E c \in Capacities, s \in PutStrategy :
        /\ kind \in {"fifo", "lru", "2q"}
        /\ kind = "2q" => c \in Q2Capacities
        /\ debug \in BOOLEAN
        /\ fifo = FIFOCache_new(IF kind = "fifo" THEN c ELSE 0)
        /\ lru = LruCache_with_put_strategy(IF kind = "lru" THEN c ELSE 0,
                                            IF kind = "lru" THEN s ELSE PutStrategy_default)
        /\ q2 = Lru2qCache_new(IF kind = "2q" THEN c ELSE 0)
        /\ lastOp = "new"
        /\ retSome = FALSE
        /\ keyIn = {}
        /\ panicked = FALSE
        /\ putLog = <<>>
        /\ fifoPure = TRUE
        /\ accessLog = <<>>
        /\ hitCalls = 0
        /\ missCalls = 0
        /\ evictions = 0
        /\ newCapacity = c

\* ------------------------------------------------------- FIFOCache actions
\* a call on fifo that ended as r; a panic ends the run
FifoStep(call, k, r) ==
    /\ kind = "fifo"
    /\ ~panicked
    /\ r.self.hits <= MaxHits
    /\ r.self.misses <= MaxMisses
    /\ fifo' = r.self
    /\ retSome' = IsSome(r.res)
    /\ panicked' = r.panic
    /\ lastOp' = call
    /\ keyIn' = IF fifo_contains(fifo, k) THEN {"fifo"} ELSE {}
    /\ UNCHANGED <<kind, debug, lru, q2, accessLog, evictions, newCapacity>>

\* the history of a put of k: still pure if k was never put before
FifoLogPut(k) ==
    IF fifoPure /\ \A i \in 1..Len(putLog) : putLog[i] # k
    THEN /\ putLog' = Append(putLog, k)
         /\ fifoPure' = TRUE
    ELSE /\ putLog' = <<>>
         /\ fifoPure' = FALSE

FifoLogOther ==
    /\ putLog' = <<>>
    /\ fifoPure' = FALSE

\* the history of a lookup of k: one more call on a key held, or not held
FifoLogLookup(k) ==
    IF \E i \in 1..Len(fifo.map) : fifo.map[i][1] = k
    THEN /\ hitCalls' = hitCalls + 1
         /\ missCalls' = missCalls
    ELSE /\ hitCalls' = hitCalls
         /\ missCalls' = missCalls + 1

FifoLogNoLookup == UNCHANGED <<hitCalls, missCalls>>

FifoPut(k, v) ==
    /\ FifoStep("put", k, fifo_put(fifo, k, v))
    /\ FifoLogPut(k)
    /\ FifoLogNoLookup

FifoPutAndReturn(k, v) ==
    /\ FifoStep("put_and_return", k, fifo_put_and_return(fifo, k, v))
    /\ FifoLogPut(k)
    /\ FifoLogNoLookup

FifoGet(k) ==
    /\ FifoStep("get", k, fifo_get(fifo, k))
    /\ FifoLogLookup(k)
    /\ UNCHANGED <<putLog, fifoPure>>

FifoGetMut(k, w) ==
    /\ FifoStep("get_mut", k, fifo_get_mut(fifo, k, w))
    /\ FifoLogLookup(k)
    /\ UNCHANGED <<putLog, fifoPure>>

FifoContains(k) ==
    /\ FifoStep("contains", k,
                [self |-> fifo, panic |-> FALSE,
                 res |-> IF fifo_contains(fifo, k) THEN Some(TRUE) ELSE None])
    /\ FifoLogNoLookup
    /\ UNCHANGED <<putLog, fifoPure>>

FifoRenew(k) ==
    /\ FifoStep("renew", k, fifo_renew(fifo, k))
    /\ FifoLogOther
    /\ FifoLogNoLookup

FifoTake(k) ==
    /\ FifoStep("take", k, fifo_take(fifo, k))
    /\ FifoLogOther
    /\ FifoLogNoLookup

FifoClear ==
    /\ FifoStep("clear", 0, fifo_clear(fifo))
    /\ FifoLogOther
    /\ FifoLogNoLookup

\* -------------------------------------------------------- LruCache actions
LruStep(call, k, r) ==
    /\ kind = "lru"
    /\ ~panicked
    /\ r.self.popped_count <= MaxPopped
    /\ lru' = r.self
    /\ retSome' = IsSome(r.res)
    /\ panicked' = r.panic
    /\ lastOp' = call
    /\ keyIn' = IF lru_contains(lru, k) THEN {"lru"} ELSE {}
    /\ UNCHANGED <<kind, debug, fifo, q2, putLog, fifoPure, hitCalls, missCalls,
                   newCapacity>>

\* the history of a put: the keys the cache held and holds no more
LruLogPut ==
    evictions' = evictions + Cardinality(lhm_key_set(lru.map) \ lhm_key_set(lru'.map))

LruPutStrategy(s) ==
    /\ LruStep("put_strategy", 0, lru_put_strategy(lru, s))
    /\ UNCHANGED <<accessLog, evictions>>

LruPut(k, v) ==
    /\ LruStep("put", k, lru_put(lru, k, v))
    /\ accessLog' = Restrict(Touch(accessLog, k), lru'.map)
    /\ LruLogPut

LruPutAndReturn(k, v) ==
    /\ LruStep("put_and_return", k, lru_put_and_return(lru, k, v))
    /\ accessLog' = Restrict(Touch(accessLog, k), lru'.map)
    /\ LruLogPut

LruGet(k) ==
    /\ LruStep("get", k, lru_get(lru, k))
    /\ accessLog' = IF lru_contains(lru, k) THEN Touch(accessLog, k) ELSE accessLog
    /\ UNCHANGED evictions

LruGetMut(k, w) ==
    /\ LruStep("get_mut", k, lru_get_mut(lru, k, w))
    /\ accessLog' = IF lru_contains(lru, k) THEN Touch(accessLog, k) ELSE accessLog
    /\ UNCHANGED evictions

LruTake(k) ==
    /\ LruStep("take", k, lru_take(lru, k))
    /\ accessLog' = Restrict(accessLog, lru'.map)
    /\ UNCHANGED evictions

LruClear ==
    /\ LruStep("clear", 0, lru_clear(lru))
    /\ accessLog' = Restrict(accessLog, lru'.map)
    /\ UNCHANGED evictions

\* ------------------------------------------------------ Lru2qCache actions
Q2Step(call, k, r) ==
    /\ kind = "2q"
    /\ ~panicked
    /\ r.self.lru.popped_count <= MaxPopped
    /\ q2' = r.self
    /\ retSome' = IsSome(r.res)
    /\ panicked' = r.panic
    /\ lastOp' = call
    /\ keyIn' = (IF fifo_contains(q2.fifo, k) THEN {"fifo"} ELSE {})
                 \cup (IF lru_contains(q2.lru, k) THEN {"lru"} ELSE {})
    /\ UNCHANGED <<kind, debug, putLog, fifoPure, accessLog, hitCalls, missCalls,
                   evictions, newCapacity>>

Q2Put(k, v) ==
    /\ Q2Step("put", k, q2_put(q2, k, v))
    /\ UNCHANGED <<fifo, lru>>

Q2PutAndReturn(k, v, ret) ==
    /\ Q2Step("put_and_return", k, q2_put_and_return(q2, k, v, ret))
    /\ UNCHANGED <<fifo, lru>>

Q2Get(k) ==
    /\ Q2Step("get", k, q2_get(q2, k))
    /\ UNCHANGED <<fifo, lru>>

\* v is the value init() yields, should it be called
Q2GetOrInit(k, v, ret) ==
    /\ Q2Step("get_or_init", k, q2_get_or_init(q2, k, v, ret))
    /\ UNCHANGED <<fifo, lru>>

\* the todo!() methods panic before they look at their argument: no queue
\* is asked for the key
Q2GetMut(k) ==
    /\ Q2Step("get_mut", 0, q2_get_mut(q2, k))
    /\ UNCHANGED <<fifo, lru>>

Q2Take(k) ==
    /\ Q2Step("take", 0, q2_take(q2, k))
    /\ UNCHANGED <<fifo, lru>>

Q2Pos(i) ==
    /\ Q2Step("pos", 0, q2_pos(q2, i))
    /\ UNCHANGED <<fifo, lru>>

Q2Clear ==
    /\ Q2Step("clear", 0, q2_clear(q2))
    /\ UNCHANGED <<fifo, lru>>

\* ------------------------------------------------------------------- Next
NextFifo ==
    \/ \E k \in Keys, v \in Values : FifoPut(k, v)
    \/ \E k \in Keys, v \in Values : FifoPutAndReturn(k, v)
    \/ \E k \in Keys : FifoGet(k)
    \/ \E k \in Keys, w \in Values : FifoGetMut(k, w)
    \/ \E k \in Keys : FifoContains(k)
    \/ \E k \in Keys : FifoRenew(k)
    \/ \E k \in Keys : FifoTake(k)
    \/ FifoClear

NextLru ==
    \/ \E s \in PutStrategy : LruPutStrategy(s)
    \/ \E k \in Keys, v \in Values : LruPut(k, v)
    \/ \E k \in Keys, v \in Values : LruPutAndReturn(k, v)
    \/ \E k \in Keys : LruGet(k)
    \/ \E k \in Keys, w \in Values : LruGetMut(k, w)
    \/ \E k \in Keys : LruTake(k)
    \/ LruClear

NextQ2 ==
    \/ \E k \in Q2Keys, v \in Values : Q2Put(k, v)
    \/ \E k \in Q2Keys, v \in Values, ret \in BOOLEAN : Q2PutAndReturn(k, v, ret)
    \/ \E k \in Q2Keys : Q2Get(k)
    \/ \E k \in Q2Keys, v \in Values, ret \in BOOLEAN : Q2GetOrInit(k, v, ret)
    \/ \E k \in Q2Keys : Q2GetMut(k)
    \/ \E k \in Q2Keys : Q2Take(k)
    \/ \E i \in Q2Capacities : Q2Pos(i)
    \/ Q2Clear

\* the crate as built: lib.rs has `pub mod fifo; pub mod lru_1;` and leaves
\* lru_2q out
Init == New /\ kind \in {"fifo", "lru"}

Next == NextFifo \/ NextLru

Spec == Init /\ [][Next]_vars

\* one cache type each
InitFifo == New /\ kind = "fifo"

SpecFifo == InitFifo /\ [][NextFifo]_vars

InitLru == New /\ kind = "lru"

SpecLru == InitLru /\ [][NextLru]_vars

\* the source of lru_2q.rs
InitQ2 == New /\ kind = "2q"

SpecQ2 == InitQ2 /\ [][NextQ2]_vars

\* ================================================================== claims

\* C1: after any sequence of LruCache calls, for every capacity (0 included)
\* and every put strategy, len() <= capacity().
C1_LruLenWithinCapacity ==
    (kind = "lru" /\ ~panicked) => lru_len(lru) <= lru_capacity(lru)

\* C2: after any sequence of FIFOCache calls that has not panicked,
\* len() <= capacity(); so the debug_assert that opens check_size, which is
\* this very condition on the state a put finds, never fails.
C2_FifoLenWithinCapacity ==
    kind = "fifo" =>
        /\ fifo_len(fifo) <= fifo_capacity(fifo)
        /\ ~panicked => \A k \in Keys, v \in Values :
               LET p == fifo_put(fifo, k, v)
               IN  /\ fifo_len(p.self) <= fifo_capacity(p.self)
                   /\ p.panic => fifo_capacity(fifo) = 0

\* C2 witness: a put into a full FIFOCache evicted an entry, and the cache
\* is full again.
C2_Witness ==
    /\ kind = "fifo"
    /\ lastOp = "put"
    /\ retSome
    /\ fifo_capacity(fifo) = MaxCapacity
    /\ fifo_len(fifo) = fifo_capacity(fifo)
\* C3: LruCache, strategy Add, capacity >= 1.  A get or get_mut that hits,
\* and a put, leave the key at the back of the order; a put of an absent key
\* into a full cache returns the entry whose last access is the oldest of
\* the entries present, removes that entry and no other, and keeps the
\* values of the others.
C3_LruEvictsLeastRecent ==
    (kind = "lru" /\ ~panicked /\ lru.put_strategy = "Add" /\ lru_capacity(lru) >= 1) =>
        /\ \A k \in Keys : lru_contains(lru, k) =>
               /\ lhm_back_key(lru_get(lru, k).self.map) = k
               /\ IsSome(lru_get(lru, k).res)
               /\ \A w \in Values : lhm_back_key(lru_get_mut(lru, k, w).self.map) = k
        /\ \A k \in Keys, v \in Values : lhm_back_key(lru_put(lru, k, v).self.map) = k
        /\ \A k \in Keys, v \in Values :
               (~lru_contains(lru, k) /\ lru_len(lru) >= lru_capacity(lru)) =>
                   LET p == lru_put(lru, k, v)
                       oldest == Head(accessLog)
                   IN  /\ lru_contains(lru, oldest)
                       /\ p.res = Some(<<oldest, Unwrap(lhm_get(lru.map, oldest))>>)
                       /\ lhm_key_set(p.self.map)
                              = (lhm_key_set(lru.map) \ {oldest}) \cup {k}
                       /\ \A j \in lhm_key_set(lru.map) \ {oldest} :
                              lhm_get(p.self.map, j) = lhm_get(lru.map, j)

\* C3 witness: under Add, a put of an absent key into a full LruCache of the
\* largest capacity evicted an entry, and the entry now least recently
\* accessed is not the one with the smallest key still present.
C3_Witness ==
    /\ kind = "lru"
    /\ ~panicked
    /\ lru.put_strategy = "Add"
    /\ lru_capacity(lru) = MaxCapacity
    /\ lastOp = "put"
    /\ keyIn = {}
    /\ retSome
    /\ Len(accessLog) >= 2
    /\ accessLog[1] > accessLog[2]

\* C4: FIFOCache of capacity >= 1 that has seen only puts of pairwise
\* distinct keys, get, get_mut and contains.  The entries are the last
\* admitted keys in admission order; get and get_mut leave the order as it
\* is; a put of a new key into the full cache returns the earliest admitted
\* entry still present, after which get of that key returns none and the
\* front is the next-earliest admitted entry.
C4_FifoAdmissionOrder ==
    (kind = "fifo" /\ ~panicked /\ fifoPure /\ fifo_capacity(fifo) >= 1) =>
        LET n == Len(putLog)
            c == fifo_capacity(fifo)
            first == IF n > c THEN n - c + 1 ELSE 1
        IN  /\ lhm_keys(fifo.map) = SubSeq(putLog, first, n)
            /\ \A k \in Keys :
                   /\ fifo_get(fifo, k).self.map = fifo.map
                   /\ \A w \in Values :
                          lhm_keys(fifo_get_mut(fifo, k, w).self.map) = lhm_keys(fifo.map)
            /\ \A k \in Keys, v \in Values :
                   ((\A i \in 1..n : putLog[i] # k) /\ fifo_len(fifo) = c) =>
                       LET p == fifo_put(fifo, k, v)
                       IN  /\ p.res = Some(fifo.map[1])
                           /\ fifo.map[1][1] = putLog[first]
                           /\ fifo_get(p.self, putLog[first]).res = None
                           /\ lhm_front_key(p.self.map)
                                  = (IF c >= 2 THEN putLog[first + 1] ELSE k)

\* C4 witness: more distinct keys were put than the capacity holds, with a
\* get that hit in between, and the last put evicted an entry.
C4_Witness ==
    /\ kind = "fifo"
    /\ fifoPure
    /\ fifo_capacity(fifo) = MaxCapacity
    /\ Len(putLog) > fifo_capacity(fifo)
    /\ fifo.hits >= 1
    /\ lastOp = "put"
    /\ retSome
\* C5: LruCache, strategy Replace.  put(k, v) on a present key k overwrites
\* the value of k in place: the order of the keys is unchanged, len is
\* unchanged and nothing is evicted.
C5_ReplaceKeepsPosition ==
    [][\A k \in Keys, v \in Values :
          (LruPut(k, v) /\ lru.put_strategy = "Replace" /\ lru_contains(lru, k)) =>
              /\ lhm_get(lru'.map, k) = Some(v)
              /\ lhm_keys(lru'.map) = lhm_keys(lru.map)
              /\ lru_len(lru') = lru_len(lru)
              /\ ~retSome'
              /\ lru_popped_count(lru') = lru_popped_count(lru)]_vars

\* C6: LruCache, strategy Move.  put(k, v1) on an absent key stores v1.
\* put(k, v2) on a present key keeps the stored value, moves k to the back
\* of the order (the other keys keep their relative order), evicts nothing,
\* and leaves len and popped_count as they were.
C6_MoveKeepsValue ==
    (kind = "lru" /\ ~panicked /\ lru.put_strategy = "Move") =>
        \A k \in Keys, v \in Values :
            LET p == lru_put(lru, k, v)
            IN  IF lru_contains(lru, k)
                THEN /\ lhm_get(p.self.map, k) = lhm_get(lru.map, k)
                     /\ lhm_keys(p.self.map)
                            = Append(SelectSeq(lhm_keys(lru.map), LAMBDA x : x # k), k)
                     /\ \A j \in lhm_key_set(lru.map) :
                            lhm_get(p.self.map, j) = lhm_get(lru.map, j)
                     /\ p.res = None
                     /\ lru_len(p.self) = lru_len(lru)
                     /\ lru_popped_count(p.self) = lru_popped_count(lru)
                ELSE lhm_get(p.self.map, k) = Some(v)

\* C6 witness: under Move, a put of a key that was present and not at the
\* back has just run, and the cache holds both values.
C6_Witness ==
    /\ kind = "lru"
    /\ ~panicked
    /\ lru.put_strategy = "Move"
    /\ lastOp = "put"
    /\ keyIn = {"lru"}
    /\ lru_len(lru) = MaxCapacity
    /\ lru.popped_count = 0
    /\ lhm_back_key(lru.map) < lhm_front_key(lru.map)
    /\ lru_back(lru) # lru_front(lru)
\* C7: Lru2qCache.get(k) with k in the admission queue (fifo): the entry
\* leaves the admission queue, the protected queue (lru) holds it with its
\* value, and get returns that value, whether or not lru held k before.
C7_Q2GetReturnsMigrated ==
    [][\A k \in Keys :
          (Q2Get(k) /\ fifo_contains(q2.fifo, k)) =>
              /\ ~fifo_contains(q2'.fifo, k)
              /\ lhm_get(q2'.lru.map, k) = lhm_get(q2.fifo.map, k)
              /\ q2_get(q2, k).res = lhm_get(q2.fifo.map, k)
              /\ retSome']_vars

\* C8: LruCache.put_and_return(k, v) returns the entry of k as it is after
\* the call, under every strategy, for k absent and for k present.  (Stated
\* for capacities >= 1, where no call breaks len() <= capacity().)
C8_PutAndReturnReturnsEntry ==
    [][\A k \in Keys, v \in Values :
          (LruPutAndReturn(k, v) /\ lru_capacity(lru) >= 1) =>
              /\ lru_contains(lru', k)
              /\ lru_put_and_return(lru, k, v).res
                     = Some(<<k, Unwrap(lhm_get(lru'.map, k))>>)
              /\ retSome']_vars

\* C9: a FIFOCache of capacity 0 never holds an entry: put and
\* put_and_return of any key panic and store nothing.
C9_FifoZeroCapacityPanics ==
    (kind = "fifo" /\ fifo_capacity(fifo) = 0) =>
        /\ fifo_len(fifo) = 0
        /\ lastOp \in {"put", "put_and_return"} => panicked
        /\ \A k \in Keys, v \in Values :
               /\ fifo_put(fifo, k, v).panic
               /\ fifo_put(fifo, k, v).self.map = <<>>
               /\ fifo_put_and_return(fifo, k, v).panic
               /\ fifo_put_and_return(fifo, k, v).self.map = <<>>

\* C9 witness: the put on a FIFOCache of capacity 0 panicked.
C9_Witness ==
    /\ kind = "fifo"
    /\ fifo_capacity(fifo) = 0
    /\ lastOp = "put"
    /\ panicked

\* what take(k) must do to map m: res is the entry of k, if there is one, and
\* rest the other entries, in their order and with their values
TakeOf(m, k) ==
    [res  |-> IF \E i \in 1..Len(m) : m[i][1] = k
              THEN Some(<<k, m[CHOOSE i \in 1..Len(m) : m[i][1] = k][2]>>)
              ELSE None,
     rest |-> SelectSeq(m, LAMBDA e : e[1] # k)]

\* C10: FIFOCache.take and LruCache.take.  On a present key k, take(k)
\* returns the stored pair, len() drops by one, the other entries keep
\* their order and values, and get(k) then returns none; on an absent key
\* it returns none and changes nothing.  The counters and the capacity are
\* not touched.
C10_TakeRemovesExactlyTheKey ==
    /\ (kind = "fifo" /\ ~panicked) =>
           \A k \in Keys :
               LET t == fifo_take(fifo, k)
               IN  /\ t.res = TakeOf(fifo.map, k).res
                   /\ t.self = [fifo EXCEPT !.map = TakeOf(fifo.map, k).rest]
                   /\ ~t.panic
                   /\ fifo_get(t.self, k).res = None
                   /\ fifo_contains(fifo, k) => fifo_len(t.self) = fifo_len(fifo) - 1
                   /\ ~fifo_contains(fifo, k) => (t.res = None /\ t.self = fifo)
    /\ (kind = "lru" /\ ~panicked) =>
           \A k \in Keys :
               LET t == lru_take(lru, k)
               IN  /\ t.res = TakeOf(lru.map, k).res
                   /\ t.self = [lru EXCEPT !.map = TakeOf(lru.map, k).rest]
                   /\ ~t.panic
                   /\ lru_get(t.self, k).res = None
                   /\ lru_contains(lru, k) => lru_len(t.self) = lru_len(lru) - 1
                   /\ ~lru_contains(lru, k) => (t.res = None /\ t.self = lru)

\* C10 witness: a take of a present key has just returned its entry, and
\* another entry is left.
C10_Witness ==
    /\ lastOp = "take"
    /\ retSome
    /\ \/ kind = "fifo" /\ keyIn = {"fifo"} /\ fifo_len(fifo) >= 1
                        /\ fifoPure = FALSE
       \/ kind = "lru" /\ keyIn = {"lru"} /\ lru_len(lru) >= 1

\* C11: FIFOCache's counters.  hits is the number of get / get_mut calls on
\* a key that was present and misses the number on a key that was absent;
\* put, put_and_return, renew, take, contains and clear change neither, and
\* no operation decreases either.  After two hits and one miss hits_ratio
\* is 2/3.
C11_FifoCountersCountLookups ==
    kind = "fifo" =>
        /\ fifo.hits = hitCalls
        /\ fifo.misses = missCalls
        /\ \A k \in Keys, v \in Values :
               /\ \A c \in {fifo_put(fifo, k, v).self,
                            fifo_put_and_return(fifo, k, v).self,
                            fifo_renew(fifo, k).self, fifo_take(fifo, k).self,
                            fifo_clear(fifo).self} :
                      /\ c.hits = fifo.hits
                      /\ c.misses = fifo.misses
               /\ \A c \in {fifo_get(fifo, k).self, fifo_get_mut(fifo, k, v).self} :
                      /\ c.hits =
                             fifo.hits + (IF fifo_contains(fifo, k) THEN 1 ELSE 0)
                      /\ c.misses =
                             fifo.misses + (IF fifo_contains(fifo, k) THEN 0 ELSE 1)
        /\ (hitCalls = 2 /\ missCalls = 1) =>
               3 * fifo_hits_ratio(fifo).num = 2 * fifo_hits_ratio(fifo).den

\* C11 witness: two lookups of a present key and one of an absent key, the
\* last of them a get_mut.
C11_Witness ==
    /\ kind = "fifo"
    /\ hitCalls = 2
    /\ missCalls = 1
    /\ fifo.hits = 2
    /\ fifo.misses = 1
    /\ lastOp = "get_mut"

\* C12: FIFOCache.renew.  On a present key k, renew(k) makes k the back
\* entry (so that, when k was the front, the next entry to be evicted is
\* k's former successor) and keeps the key set, every value, len(), hits
\* and misses; the other entries keep their order.  On an absent key it
\* returns none and changes nothing.
C12_FifoRenewMovesToBack ==
    (kind = "fifo" /\ ~panicked) =>
        \A k \in Keys :
            LET r == fifo_renew(fifo, k)
                m == fifo.map
                n == r.self.map
            IN  /\ ~r.panic
                /\ fifo_contains(fifo, k) =>
                       /\ IsSome(r.res)
                       /\ n[Len(n)][1] = k
                       /\ SelectSeq(n, LAMBDA e : e[1] # k) =
                              SelectSeq(m, LAMBDA e : e[1] # k)
                       /\ {n[i] : i \in 1..Len(n)} = {m[i] : i \in 1..Len(m)}
                       /\ fifo_len(r.self) = fifo_len(fifo)
                       /\ r.self.hits = fifo.hits
                       /\ r.self.misses = fifo.misses
                       /\ r.self.capacity = fifo.capacity
                       /\ (m[1][1] = k /\ Len(m) >= 2) => n[1] = m[2]
                /\ ~fifo_contains(fifo, k) =>
                       /\ r.res = None
                       /\ r.self = fifo

\* C12 witness: a renew of a present key has returned its entry, in a cache
\* that holds two entries.
C12_Witness ==
    /\ kind = "fifo"
    /\ lastOp = "renew"
    /\ retSome
    /\ keyIn = {"fifo"}
    /\ fifo_len(fifo) = 2
    /\ ~panicked

\* C13, as claimed: Lru2qCache.get_or_init.  When k is in the admission
\* queue or in the protected queue, the result and the state change are
\* those of get(k).  When k is in neither, the value of init is stored for k
\* at the back of the admission queue, and the protected queue is unchanged.
\* Stated of every call, it fails on a cache of capacity 0, where the call
\* panics and stores nothing.
C13_Q2GetOrInitAsClaimed ==
    [][\A k \in Q2Keys, v \in Values, ret \in BOOLEAN :
           Q2GetOrInit(k, v, ret) =>
               IF fifo_contains(q2.fifo, k) \/ lru_contains(q2.lru, k)
               THEN /\ q2' = q2_get(q2, k).self
                    /\ retSome' = IsSome(q2_get(q2, k).res)
               ELSE /\ lhm_back(q2'.fifo.map) = Some(<<k, v>>)
                    /\ q2'.lru = q2.lru]_vars

\* C13, amended: Lru2qCache.get_or_init.  When k is in the admission queue
\* or in the protected queue, init is not invoked (the outcome does not
\* depend on its value) and the result and the state change are those of
\* get(k): an entry of the admission queue moves to the protected queue, and
\* a key of the protected queue alone gives none and no change.  When k is
\* in neither, init is invoked exactly once; with capacity >= 1 its value is
\* appended for k at the back of the admission queue, behind the entries
\* that were there (less the front one if the queue was full), and the
\* protected queue is unchanged; with capacity 0 the call panics and stores
\* nothing.
C13_Q2GetOrInit ==
    (kind = "2q" /\ ~panicked) =>
        \A k \in Keys :
            LET get == q2_get(q2, k)
                inFifo == fifo_contains(q2.fifo, k)
                hit == inFifo \/ lru_contains(q2.lru, k)
                kept == IF fifo_len(q2.fifo) >= fifo_capacity(q2.fifo)
                        THEN Tail(q2.fifo.map)
                        ELSE q2.fifo.map
            IN  /\ (hit /\ inFifo) =>
                       /\ get.self.fifo.map = SelectSeq(q2.fifo.map, LAMBDA e : e[1] # k)
                       /\ lhm_get(get.self.lru.map, k) = lhm_get(q2.fifo.map, k)
                /\ (hit /\ ~inFifo) =>
                       /\ get.self = q2
                       /\ get.res = None
                /\ \A v \in Values, ret \in BOOLEAN :
                       q2_get_or_init(q2, k, v, ret) =
                           IF hit
                           THEN [self |-> get.self, res |-> get.res,
                                 panic |-> get.panic, inits |-> 0]
                           ELSE IF q2_capacity(q2).res = 0
                           THEN [self |-> q2, res |-> None, panic |-> TRUE, inits |-> 1]
                           ELSE [self |-> [q2 EXCEPT !.fifo.map = Append(kept, <<k, v>>)],
                                 res |-> IF ret THEN Some(v) ELSE None,
                                 panic |-> FALSE, inits |-> 1]

\* C13 witness: a get_or_init of a key in neither queue has stored the
\* initial value at the back of an admission queue of two entries, next to a
\* protected queue that holds an entry.
C13_Witness ==
    /\ kind = "2q"
    /\ lastOp = "get_or_init"
    /\ keyIn = {}
    /\ ~panicked
    /\ fifo_len(q2.fifo) = 2
    /\ IsSome(fifo_back(q2.fifo))
    /\ lru_len(q2.lru) >= 1

\* C14: Lru2qCache.  len() is the sum of the occupancies of the two queues,
\* and after any sequence of put, get, get_or_init and clear,
\* len() <= capacity().
C14_Q2LenWithinCapacity ==
    kind = "2q" =>
        /\ q2_len(q2) = Len(q2.fifo.map) + Len(q2.lru.map)
        /\ ~q2_capacity(q2).panic
        /\ q2_len(q2) <= q2_capacity(q2).res

\* C15: FIFOCache.clear and LruCache.clear.  From any state clear() leaves
\* len() = 0 and is_empty() true, and a second clear() changes nothing;
\* capacity() returns the value given at construction after clear() and
\* after every other operation.
C15_ClearEmptiesAndKeepsCapacity ==
    /\ kind = "fifo" =>
           LET c == fifo_clear(fifo).self
           IN  /\ fifo_len(c) = 0
               /\ fifo_is_empty(c)
               /\ ~fifo_clear(fifo).panic
               /\ fifo_clear(c).self = c
               /\ fifo_capacity(c) = newCapacity
               /\ fifo_capacity(fifo) = newCapacity
               /\ lastOp = "clear" => (fifo_len(fifo) = 0 /\ fifo_is_empty(fifo))
    /\ kind = "lru" =>
           LET c == lru_clear(lru).self
           IN  /\ lru_len(c) = 0
               /\ lru_is_empty(c)
               /\ ~lru_clear(lru).panic
               /\ lru_clear(c).self = c
               /\ lru_capacity(c) = newCapacity
               /\ lru_capacity(lru) = newCapacity
               /\ lastOp = "clear" => (lru_len(lru) = 0 /\ lru_is_empty(lru))

\* C15 witness: a clear has emptied a FIFOCache of capacity 2 that had
\* served a lookup of a present key.
C15_Witness ==
    /\ kind = "fifo"
    /\ lastOp = "clear"
    /\ fifo_is_empty(fifo)
    /\ fifo_capacity(fifo) = 2
    /\ hitCalls >= 1

\* C16: FIFOCache.put and put_and_return evict the front entry exactly when
\* the cache is at capacity and the key is new: a put of a key the cache
\* already holds, even into a full cache, removes no other key and returns
\* no evicted pair.
C16_FifoPutOfPresentKeyEvictsNothing ==
    [][\A k \in Keys, v \in Values :
           /\ (FifoPut(k, v) /\ fifo_contains(fifo, k) /\ ~panicked') =>
                  /\ lhm_key_set(fifo'.map) = lhm_key_set(fifo.map)
                  /\ ~retSome'
           /\ (FifoPutAndReturn(k, v) /\ fifo_contains(fifo, k) /\ ~panicked') =>
                  lhm_key_set(fifo'.map) = lhm_key_set(fifo.map)
           /\ ((FifoPut(k, v) \/ FifoPutAndReturn(k, v))
                   /\ ~fifo_contains(fifo, k) /\ ~panicked') =>
                  (lhm_key_set(fifo'.map) = (lhm_key_set(fifo.map) \cup {k})
                       <=> fifo_len(fifo) < fifo_capacity(fifo))]_vars

\* C17: LruCache.popped_count, for every capacity and strategy, is the
\* number of entries that put and put_and_return removed to make room.  A
\* put of a present key, get, get_mut, take and clear leave it unchanged,
\* and nothing decreases it.
C17_PoppedCountCountsEvictions ==
    kind = "lru" =>
        /\ lru_popped_count(lru) = evictions
        /\ \A k \in Keys, v \in Values :
               /\ \A c \in {lru_get(lru, k).self, lru_get_mut(lru, k, v).self,
                            lru_take(lru, k).self, lru_clear(lru).self} :
                      lru_popped_count(c) = lru_popped_count(lru)
               /\ \A c \in {lru_put(lru, k, v).self, lru_put_and_return(lru, k, v).self} :
                      /\ lru_popped_count(c) >= lru_popped_count(lru)
                      /\ lru_contains(lru, k) =>
                             lru_popped_count(c) = lru_popped_count(lru)

\* C18: Lru2qCache.get(k), when the admission queue does not hold k,
\* returns none and leaves both queues as they were, even when the
\* protected queue holds k.
C18_Q2GetMissesProtectedQueue ==
    (kind = "2q" /\ ~panicked) =>
        \A k \in Keys :
            ~fifo_contains(q2.fifo, k) =>
                /\ q2_get(q2, k).res = None
                /\ q2_get(q2, k).self = q2
                /\ ~q2_get(q2, k).panic

\* C18 witness: a get of a key held by the protected queue only has
\* returned none, and the protected queue still holds an entry.
C18_Witness ==
    /\ kind = "2q"
    /\ lastOp = "get"
    /\ keyIn = {"lru"}
    /\ ~retSome
    /\ ~panicked
    /\ lru_len(q2.lru) >= 1

\* C19: for FIFOCache, and for LruCache under every strategy,
\* put_and_return(k, v) leaves the cache in exactly the state (keys, values,
\* order, counters) that put(k, v) leaves from the same starting state; the
\* two calls differ in the returned value only, so one panics exactly when
\* the other does.
C19_PutAndReturnRefinesPut ==
    [][\A k \in Keys, v \in Values :
           /\ FifoPut(k, v) =>
                  /\ fifo' = fifo_put_and_return(fifo, k, v).self
                  /\ panicked' = fifo_put_and_return(fifo, k, v).panic
           /\ FifoPutAndReturn(k, v) =>
                  /\ fifo' = fifo_put(fifo, k, v).self
                  /\ panicked' = fifo_put(fifo, k, v).panic
           /\ LruPut(k, v) =>
                  /\ lru' = lru_put_and_return(lru, k, v).self
                  /\ panicked' = lru_put_and_return(lru, k, v).panic
           /\ LruPutAndReturn(k, v) =>
                  /\ lru' = lru_put(lru, k, v).self
                  /\ panicked' = lru_put(lru, k, v).panic]_vars

\* C20: Lru2qCache.  After any sequence of put, get, get_or_init and clear
\* no key is in the admission queue and in the protected queue at the same
\* time, so len() counts every key once.
C20_Q2QueuesDisjoint ==
    kind = "2q" =>
        /\ lhm_key_set(q2.fifo.map) \cap lhm_key_set(q2.lru.map) = {}
        /\ q2_len(q2) = Cardinality(lhm_key_set(q2.fifo.map) \cup lhm_key_set(q2.lru.map))

=============================================================================
